---- MODULE Spec2Model ----
(***************************************************************************)
(* Model of genedni/trades: the synthetic OHLC generators (gendata of      *)
(* mini.py, create_minimal_chart of minimal_candlestick.py), the module-   *)
(* level start-up of both scripts, and the viewport callback update_chart  *)
(* of mini.py.                                                             *)
(*                                                                         *)
(* Prices are floats in the source.  A float is modelled as a record       *)
(* [nan, val]: NaN, or a number.  Generated prices are whole numbers here; *)
(* the axis bounds y_min / y_max are kept in hundredths of a price unit,   *)
(* so that x * 0.95 is the exact integer 95 * x (4.75 is 475).             *)
(* A calendar date is the number of days since 2023-01-01.                 *)
(***************************************************************************)
EXTENDS Integers, Sequences, FiniteSets

VARIABLES
    entry,      \* what is run: one of the two scripts, or a direct call
    pc,         \* position in the code of that entry
    globals,    \* the module-level names bound so far
    df,         \* the module-level df (mini.py:69,88; minimal_candlestick.py:135)
    frame,      \* gendata's local df, grown row by row
    k,          \* number of dates of the loop of gendata consumed
    bias,       \* gendata's bias
    cols,       \* create_minimal_chart: the columns of the dict built so far
    ret,        \* what the directly called create_stock_chart returned
    genRuns,    \* how many times a generator has been entered
    layoutEvaluated, \* the expression assigned to app.layout has been evaluated
    viewport,   \* arguments of the last update_chart call (<<>> before any)
    result,     \* what the last update_chart call produced
    memo,       \* an earlier call kept for comparison: <<>> or <<range, result>>
    df0         \* the df the callbacks started with

vars == <<entry, pc, globals, df, frame, k, bias, cols, ret, genRuns,
          layoutEvaluated, viewport, result, memo, df0>>

----------------------------------------------------------------------------
(* Bounds of the model                                                     *)

\* rows generated by gendata (periods=1000 in the source)
Periods == 2
\* rows generated by create_minimal_chart (periods=100 in the source)
MinimalPeriods == 2
\* longest series the callback is applied to
MaxLen == 3

----------------------------------------------------------------------------
(* Floats                                                                  *)

NaN == [nan |-> TRUE, val |-> 0]
Float(x) == [nan |-> FALSE, val |-> x]

Max(S) == CHOOSE x \in S : \A y \in S : y <= x
Min(S) == CHOOSE x \in S : \A y \in S : x <= y

\* float * (pct / 100), the product kept in hundredths; NaN * anything is NaN
Scale(f, pct) == IF f.nan THEN NaN ELSE Float(f.val * pct)

----------------------------------------------------------------------------
(* mini.py: gendata                                                        *)

maxval == 100
StartDay == 0

\* values random.random() * maxval is sampled at, all in [0, maxval)
Draws == {0, 50, maxval - 1}

\* pd.date_range('2023-01-01', periods=periods)
date_range(periods) == [j \in 1..periods |-> StartDay + (j - 1)]

\* a row of the frame gendata returns: the frame was created with the columns
\* Date, Open, High, Low, Close while new_row's keys are lower-case, so that
\* after the concat every row has the five capitalised columns as NaN beside
\* its own five
frame_row(d, o, h, l, c) ==
    [Date |-> NaN, Open |-> NaN, High |-> NaN, Low |-> NaN, Close |-> NaN,
     date |-> d, open |-> Float(o), high |-> Float(h), low |-> Float(l),
     close |-> Float(c)]

new_row_high_unbiased(d, vallist, oi, ci, b) ==
    frame_row(d, vallist[oi + 1] + b,
                 Max({vallist[j] : j \in 1..4}),
                 Min({vallist[j] : j \in 1..4}) + b,
                 vallist[ci + 1] + b)

\* the loop body: openval, highval, lowval, closeval of the four draws
new_row(d, vallist, oi, ci, b) ==
    frame_row(d, vallist[oi + 1] + b,
                 Max({vallist[j] : j \in 1..4}) + b,
                 Min({vallist[j] : j \in 1..4}) + b,
                 vallist[ci + 1] + b)

\* pd.concat([df, new_row_df], ignore_index=True); the except branch around it
\* is for a concat that raises, which a concat of two frames does not
concat_replacing(f, row) == <<row>>

concat(f, row) == Append(f, row)

\* go.Ohlc(x=df['date'], open=df['open'], high=..., low=..., close=...)
Ohlc(f) ==
    [j \in 1..Len(f) |->
        [date |-> f[j].date, open |-> f[j].open, high |-> f[j].high,
         low |-> f[j].low, close |-> f[j].close]]

----------------------------------------------------------------------------
(* minimal_candlestick.py: create_minimal_chart                            *)

high == 100
high_med == 80
low_med == 20
low == 0

\* values random.randint is sampled at
Samples == {low, low_med, high_med, high}

randint(min_val, max_val) == {v \in Samples : min_val <= v /\ v <= max_val}

\* the lists generate_random_list(length, min_val, max_val) can return
generate_random_list(length, min_val, max_val) ==
    [1..length -> randint(min_val, max_val)]

ColumnOrder == <<"Open", "High", "Low", "Close">>

column_lists_high_unconstrained(name) ==
    IF name = "Open" THEN generate_random_list(MinimalPeriods, low, high)
    ELSE IF name = "High" THEN generate_random_list(MinimalPeriods, low, high)
    ELSE IF name = "Low" THEN generate_random_list(MinimalPeriods, low, low_med)
    ELSE generate_random_list(MinimalPeriods, low, high)

\* the argument lists of the four generate_random_list calls of the dict
column_lists(name) ==
    IF name = "Open" THEN generate_random_list(MinimalPeriods, low, high)
    ELSE IF name = "High" THEN generate_random_list(MinimalPeriods, high_med, high)
    ELSE IF name = "Low" THEN generate_random_list(MinimalPeriods, low, low_med)
    ELSE generate_random_list(MinimalPeriods, low, high)

\* pd.DataFrame({'Date': ..., 'Open': ..., 'High': ..., 'Low': ..., 'Close': ...})
DataFrame(c) ==
    [j \in 1..Len(c.Date) |->
        [Date |-> c.Date[j], Open |-> Float(c.Open[j]), High |-> Float(c.High[j]),
         Low |-> Float(c.Low[j]), Close |-> Float(c.Close[j])]]

\* go.Candlestick(x=df['Date'], open=df['Open'], ...)
Candlestick(f) ==
    [j \in 1..Len(f) |->
        [date |-> f[j].Date, open |-> f[j].Open, high |-> f[j].High,
         low |-> f[j].Low, close |-> f[j].Close]]

----------------------------------------------------------------------------
(* Direct call of create_stock_chart (mini.py:45-57), which calls gendata  *)

\* gendata, up to its loop: dates, bias = 0.00, the empty frame
GendataCall ==
    /\ entry = "create_stock_chart" /\ pc = "call"
    /\ pc' = "loop"
    /\ genRuns' = genRuns + 1
    /\ frame' = <<>>
    /\ bias' = 0
    /\ k' = 0
    /\ UNCHANGED <<entry, globals, df, cols, ret, layoutEvaluated,
                   viewport, result, memo, df0>>

\* one iteration of "for d in dates": four draws, open and close each one of
\* the four, the row appended, the bias raised by 1.0
GendataLoop ==
    /\ entry = "create_stock_chart" /\ pc = "loop"
    /\ k < Len(date_range(Periods))
    /\ \E vallist \in [1..4 -> Draws], oi \in 0..3, ci \in 0..3 :
          frame' = concat(frame, new_row(date_range(Periods)[k + 1], vallist, oi, ci, bias))
    /\ bias' = bias + 1
    /\ k' = k + 1
    /\ UNCHANGED <<entry, pc, globals, df, cols, ret, genRuns, layoutEvaluated,
                   viewport, result, memo, df0>>

\* the loop is exhausted: gendata returns df, create_stock_chart returns df, fig
GendataReturn ==
    /\ entry = "create_stock_chart" /\ pc = "loop"
    /\ k = Len(date_range(Periods))
    /\ pc' = "returned"
    /\ ret' = [df |-> frame, fig |-> Ohlc(frame)]
    /\ UNCHANGED <<entry, globals, df, frame, k, bias, cols, genRuns,
                   layoutEvaluated, viewport, result, memo, df0>>

----------------------------------------------------------------------------
(* Running mini.py: the module-level statements in order                   *)

\* app = Dash(__name__); the two defs before it bind gendata and
\* create_stock_chart but call neither
MiniCreateApp ==
    /\ entry = "mini.py" /\ pc = "import"
    /\ pc' = "app"
    /\ globals' = globals \cup {"app"}
    /\ UNCHANGED <<entry, df, frame, k, bias, cols, ret, genRuns, layoutEvaluated,
                   viewport, result, memo, df0>>

\* app.layout = html.Div([... len(df) ...]): the expression reads the global df
MiniLayout ==
    /\ entry = "mini.py" /\ pc = "app"
    /\ layoutEvaluated' = TRUE
    /\ pc' = IF "df" \in globals THEN "layout" ELSE "NameError"
    /\ UNCHANGED <<entry, globals, df, frame, k, bias, cols, ret, genRuns,
                   viewport, result, memo, df0>>

----------------------------------------------------------------------------
(* Running minimal_candlestick.py                                          *)

\* app = Dash(__name__)
MinimalCreateApp ==
    /\ entry = "minimal_candlestick.py" /\ pc = "import"
    /\ pc' = "app"
    /\ globals' = globals \cup {"app"}
    /\ UNCHANGED <<entry, df, frame, k, bias, cols, ret, genRuns, layoutEvaluated,
                   viewport, result, memo, df0>>

\* create_minimal_chart is entered; 'Date': pd.date_range(..., periods=100)
CreateMinimalChartCall ==
    /\ entry = "minimal_candlestick.py" /\ pc = "app"
    /\ pc' = "columns"
    /\ genRuns' = genRuns + 1
    /\ cols' = [Date |-> date_range(MinimalPeriods), Open |-> <<>>, High |-> <<>>,
                Low |-> <<>>, Close |-> <<>>]
    /\ k' = 0
    /\ UNCHANGED <<entry, globals, df, frame, bias, ret, layoutEvaluated,
                   viewport, result, memo, df0>>

\* the next generate_random_list call of the dict, in the order written
GenerateColumn ==
    /\ entry = "minimal_candlestick.py" /\ pc = "columns"
    /\ k < Len(ColumnOrder)
    /\ \E list \in column_lists(ColumnOrder[k + 1]) :
          cols' = [cols EXCEPT ![ColumnOrder[k + 1]] = list]
    /\ k' = k + 1
    /\ UNCHANGED <<entry, pc, globals, df, frame, bias, ret, genRuns,
                   layoutEvaluated, viewport, result, memo, df0>>

\* required columns that are missing or all-NaN
missing_columns(f) ==
    {c \in {"Open", "High", "Low", "Close"} : \A j \in 1..Len(f) : f[j][c].nan}

\* the frame is built and validated, the figures are made, and
\* "fig, df = create_minimal_chart()" binds the module's fig and df
CreateMinimalChartReturn ==
    /\ entry = "minimal_candlestick.py" /\ pc = "columns"
    /\ k = Len(ColumnOrder)
    /\ IF missing_columns(DataFrame(cols)) # {}
       THEN /\ pc' = "ValueError"
            /\ UNCHANGED <<globals, df, ret>>
       ELSE /\ pc' = "generated"
            /\ df' = DataFrame(cols)
            /\ ret' = [df |-> DataFrame(cols), fig |-> Candlestick(DataFrame(cols))]
            /\ globals' = globals \cup {"fig", "df"}
    /\ UNCHANGED <<entry, frame, k, bias, cols, genRuns, layoutEvaluated,
                   viewport, result, memo, df0>>

\* app.layout = html.Div([... figure=fig ... data=df.to_dict('records')])
MinimalLayout ==
    /\ entry = "minimal_candlestick.py" /\ pc = "generated"
    /\ layoutEvaluated' = TRUE
    /\ pc' = IF {"df", "fig"} \subseteq globals THEN "layout" ELSE "NameError"
    /\ UNCHANGED <<entry, globals, df, frame, k, bias, cols, ret, genRuns,
                   viewport, result, memo, df0>>

\* app.run_server(...): the layout registers no callback
MinimalRunServer ==
    /\ entry = "minimal_candlestick.py" /\ pc = "layout"
    /\ pc' = "serving"
    /\ UNCHANGED <<entry, globals, df, frame, k, bias, cols, ret, genRuns,
                   layoutEvaluated, viewport, result, memo, df0>>

----------------------------------------------------------------------------

NoFrame == <<>>
NoCols == [Date |-> <<>>, Open |-> <<>>, High |-> <<>>, Low |-> <<>>, Close |-> <<>>]
NoRet == [df |-> <<>>, fig |-> <<>>]
NoResult == [kind |-> "None", bars |-> <<>>, y_min |-> NaN, y_max |-> NaN]

Init ==
    /\ entry \in {"create_stock_chart", "mini.py", "minimal_candlestick.py"}
    /\ pc = IF entry = "create_stock_chart" THEN "call" ELSE "import"
    /\ globals = {}
    /\ df = <<>>
    /\ frame = NoFrame
    /\ k = 0
    /\ bias = 0
    /\ cols = NoCols
    /\ ret = NoRet
    /\ genRuns = 0
    /\ layoutEvaluated = FALSE
    /\ viewport = <<>>
    /\ result = NoResult
    /\ memo = <<>>
    /\ df0 = <<>>

Next ==
    \/ GendataCall
    \/ GendataLoop
    \/ GendataReturn
    \/ MiniCreateApp
    \/ MiniLayout
    \/ MinimalCreateApp
    \/ CreateMinimalChartCall
    \/ GenerateColumn
    \/ CreateMinimalChartReturn
    \/ MinimalLayout
    \/ MinimalRunServer

Spec == Init /\ [][Next]_vars

----------------------------------------------------------------------------
(* mini.py: the callback update_chart                                      *)

\* a slice bound: an int, or the tuple that line 90 binds to both bounds
IntIdx(n) == [is_int |-> TRUE, val |-> <<n>>]
TupleIdx(a, b) == [is_int |-> FALSE, val |-> <<a, b>>]

\* Python's slice of a sequence of length Len(f) by two ints, the stop excluded,
\* a negative bound counted from the end
slice_bound(n, len) == IF n < 0 THEN (IF n + len < 0 THEN 0 ELSE n + len)
                       ELSE (IF n > len THEN len ELSE n)

int_slice(f, start, stop) ==
    SubSeq(f, slice_bound(start, Len(f)) + 1, slice_bound(stop, Len(f)))

\* filtered_df[name].min() and .max(): NaN cells are skipped, and the minimum of
\* a column holding nothing else is NaN
column_min(f, name) ==
    LET vals == {f[j][name].val : j \in {i \in 1..Len(f) : ~f[i][name].nan}}
    IN  IF vals = {} THEN NaN ELSE Float(Min(vals))

column_max(f, name) ==
    LET vals == {f[j][name].val : j \in {i \in 1..Len(f) : ~f[i][name].nan}}
    IN  IF vals = {} THEN NaN ELSE Float(Max(vals))

TypeError == [kind |-> "TypeError", bars |-> <<>>, y_min |-> NaN, y_max |-> NaN]
\* the figure titled "No data in selected viewport"
EmptyFigure == [kind |-> "Empty", bars |-> <<>>, y_min |-> NaN, y_max |-> NaN]

\* what update_chart returns, or the exception it raises, for the global df = d
update_chart(d, viewport_range) ==
    LET invalid == viewport_range[1] < 0 \/ viewport_range[2] >= Len(d)
        start_idx == IF invalid THEN TupleIdx(0, Len(d) - 1)
                     ELSE IntIdx(viewport_range[1])
        end_idx   == IF invalid THEN TupleIdx(0, Len(d) - 1)
                     ELSE IntIdx(viewport_range[2])
    IN  IF ~start_idx.is_int \/ ~end_idx.is_int
        THEN TypeError  \* df.iloc[start_idx:end_idx] with a tuple as a bound
        ELSE LET filtered_df == int_slice(d, start_idx.val[1], end_idx.val[1])
             IN  IF Len(filtered_df) = 0
                 THEN EmptyFigure
                 ELSE [kind  |-> "Chart",
                       bars  |-> Ohlc(filtered_df),
                       y_min |-> Scale(column_min(filtered_df, "Low"), 95),
                       y_max |-> Scale(column_max(filtered_df, "High"), 105)]

df_rebound_to_slice(d, viewport_range) ==
    IF viewport_range[1] < 0 \/ viewport_range[2] >= Len(d) THEN d
    ELSE int_slice(d, viewport_range[1], viewport_range[2])

\* the global df once update_chart has run: the function neither rebinds df
\* (it declares no global) nor calls anything on it that writes
df_after_update_chart(d, viewport_range) == d

\* <<low, high>> of the bars the callback is tried on
FilterBars == <<<<10, 15>>, <<20, 25>>, <<5, 30>>>>

\* the series the callback is tried on: every length up to MaxLen, dates
\* consecutive from the start day, the bars taken in turn from FilterBars
\* starting at any of them
FilterSeries ==
    {[j \in 1..n |-> LET b == FilterBars[((j + o) % Len(FilterBars)) + 1]
                     IN  frame_row(date_range(n)[j], b[1], b[2], b[1], b[2])] :
        n \in 0..MaxLen, o \in 1..Len(FilterBars)}

\* the slider values and out-of-range values the callback is tried on
Indices == (0 - 1)..MaxLen
\* relayout_data, which update_chart never reads
RelayoutData == {"None"}

\* Dash calls update_chart(relayout_data, viewport_range)
UpdateChart ==
    /\ entry = "callback" /\ pc = "serving"
    /\ \E relayout_data \in RelayoutData, start \in Indices, stop \in Indices :
          /\ viewport' = <<start, stop>>
          /\ result' = update_chart(df, <<start, stop>>)
          /\ df' = df_after_update_chart(df, <<start, stop>>)
    /\ \/ /\ Len(viewport) = 2    \* the call before this one is remembered
          /\ memo' = <<viewport, result, FALSE>>
       \/ /\ Len(memo) = 3        \* the remembered call is kept
          /\ memo' = <<memo[1], memo[2], memo[3] \/ viewport # memo[1]>>
       \/ /\ Len(viewport) = 0
          /\ memo' = memo
    /\ UNCHANGED <<entry, pc, globals, frame, k, bias, cols, ret, genRuns,
                   layoutEvaluated, df0>>

\* the server of mini.py serving, with df bound to a generated series
FilterInit ==
    /\ entry = "callback"
    /\ pc = "serving"
    /\ globals = {"app", "df"}
    /\ df \in FilterSeries
    /\ df0 = df
    /\ frame = NoFrame
    /\ k = 0
    /\ bias = 0
    /\ cols = NoCols
    /\ ret = NoRet
    /\ genRuns = 1
    /\ layoutEvaluated = TRUE
    /\ viewport = <<>>
    /\ result = NoResult
    /\ memo = <<>>

FilterNext == UpdateChart

FilterSpec == FilterInit /\ [][FilterNext]_vars

----------------------------------------------------------------------------
(* Properties                                                              *)

Called == Len(viewport) = 2
InRange == Called /\ 0 <= viewport[1] /\ viewport[1] <= viewport[2]
                  /\ viewport[2] < Len(df)
RowsOrdered(bars) ==
    \A j \in 1..Len(bars) :
        /\ bars[j].low.val <= bars[j].open.val /\ bars[j].open.val <= bars[j].high.val
        /\ bars[j].low.val <= bars[j].close.val /\ bars[j].close.val <= bars[j].high.val

\* C1: for a valid range 0 <= startIndex <= endIndex < N the callback returns
\* exactly the bars startIndex..endIndex, both included (endIndex - startIndex
\* + 1 bars), never the Empty placeholder
C1_ValidRangeInclusive ==
    InRange =>
        /\ result.kind = "Chart"
        /\ result.bars = Ohlc(SubSeq(df, viewport[1] + 1, viewport[2] + 1))
        /\ Len(result.bars) = viewport[2] - viewport[1] + 1

\* C2: on a non-empty series a range with start after end, or with an endpoint
\* out of bounds, yields a chart: no exception and no Empty placeholder
C2_InvalidRangeClamped ==
    (Called /\ Len(df) > 0 /\ ~InRange) => result.kind = "Chart"

\* C3: the axis bounds of a returned chart are 0.95 * the least low and
\* 1.05 * the greatest high of the bars shown
C3_BoundsFromSlice ==
    result.kind = "Chart" =>
        /\ result.y_min =
              Float(95 * Min({result.bars[j].low.val : j \in 1..Len(result.bars)}))
        /\ result.y_max =
              Float(105 * Max({result.bars[j].high.val : j \in 1..Len(result.bars)}))

\* C4: on an empty series every range yields the Empty placeholder, and no
\* exception
C4_EmptySeriesEmpty ==
    (Called /\ Len(df) = 0) => result.kind = "Empty"

\* C5: the generator returns exactly the requested number of bars, bar i dated
\* start + i days: in gendata at every point of its loop and on return, and in
\* create_minimal_chart
C5_LengthAndDates ==
    /\ entry = "create_stock_chart" =>
          /\ Len(frame) = k
          /\ \A j \in 1..Len(frame) : frame[j].date = StartDay + (j - 1)
          /\ pc = "returned" => ret.df = frame /\ Len(ret.df) = Periods
    /\ (entry = "minimal_candlestick.py" /\ "df" \in globals) =>
          /\ Len(df) = MinimalPeriods
          /\ \A j \in 1..Len(df) : df[j].Date = StartDay + (j - 1)

C5_Witness ==
    /\ entry = "create_stock_chart" /\ pc = "returned"
    /\ Len(ret.df) = Periods /\ Periods > 1
    /\ ret.df[Periods].date = StartDay + Periods - 1

\* C6: every bar gendata makes has low <= open <= high and low <= close <= high
C6_GendataOrdered ==
    entry = "create_stock_chart" => RowsOrdered(frame) /\ RowsOrdered(ret.df)

C6_Witness ==
    /\ entry = "create_stock_chart" /\ pc = "returned"
    /\ \E j \in 1..Len(ret.df) :
          /\ j > 1
          /\ ret.df[j].low.val < ret.df[j].open.val
          /\ ret.df[j].open.val < ret.df[j].high.val
          /\ ret.df[j].close.val = ret.df[j].low.val

\* C7: the generator has run exactly once, and df is bound, by the time the
\* layout is built
C7_GeneratedBeforeLayout ==
    layoutEvaluated => genRuns = 1 /\ "df" \in globals

\* C8: no viewport event changes the series: its length and every bar stay
\* as they were at start-up
C8_SeriesImmutable ==
    entry = "callback" => df = df0

C8_Witness ==
    /\ entry = "callback" /\ Len(df) > 0 /\ df = df0
    /\ Len(memo) = 3 /\ memo[2].kind = "Chart" /\ memo[3]
    /\ result.kind = "TypeError"

C10_HighAtLeastLow ==
    /\ entry = "create_stock_chart" =>
          \A j \in 1..Len(frame) : frame[j].high.val >= frame[j].low.val
    /\ (entry = "minimal_candlestick.py" /\ "df" \in globals) =>
          \A j \in 1..Len(df) : df[j].High.val >= df[j].Low.val

\* a bar of create_minimal_chart with its open above its high, and one with its
\* close below its low
C10_Witness ==
    /\ entry = "minimal_candlestick.py" /\ "df" \in globals
    /\ \E j \in 1..Len(df) : df[j].Open.val > df[j].High.val
    /\ \E j \in 1..Len(df) : df[j].Close.val < df[j].Low.val
    /\ \A j \in 1..Len(df) : df[j].High.val >= df[j].Low.val

====
